---- MODULE Spec2Model ----
(***************************************************************************)
(* atlas_world: a grid dungeon crawler.  A Player stands on a cell of an   *)
(* AtlasMap and faces one of four directions; movement consults the wall   *)
(* layer of the map, and AtlasWorld::render walks a window of cells in     *)
(* front of the player and asks the AtlasCollection for the tiles to draw. *)
(*                                                                         *)
(* Coordinates: map layers are indexed layer[y][x]; the local offsets of   *)
(* the renderer are (x, z) = (lateral, forward), as in the source.         *)
(***************************************************************************)
EXTENDS Integers, Sequences, FiniteSets, TLC

VARIABLES
    player,        \* Player { x, y, direction }
    map,           \* AtlasMap { width, height, wall, floor, ceiling, object }
    collection,    \* AtlasCollection: atlas id -> layer id -> list of tiles
    render_depth,  \* AtlasWorld::render_depth
    render_width,  \* AtlasWorld::render_width
    auto_map,      \* main: auto_map[y][x], the cells the player has explored
    pc,            \* main: the part of the frame loop that runs next
    frames,        \* the number of frames completed
    first,         \* the first lookup made: its arguments and its result
    last,          \* the operation performed last and the player before it
    out            \* what the last operation did to the draw sink:
                   \*   visited: the cells handed to draw_map_square,
                   \*   calls: the get_tile lookups issued,
                   \*   draws: the draw_texture_ex operations emitted

vars == <<player, map, collection, render_depth, render_width, auto_map, pc,
         frames, first, last, out>>

----------------------------------------------------------------------------
(* Bounds of the model *)

MaxMapWidth == 3
MaxMapHeight == 2
MaxWalls == 2
MaxRenderDepth == 1
MaxRenderWidth == 2
MaxTiles == 2
MaxFrames == 2

\* the nonzero variant selectors (u8) used in the wall layers of the
\* movement model
WallValues == {1, 2}

----------------------------------------------------------------------------
(* glam::IVec2 and Option<String> *)

ivec2(x, y) == [x |-> x, y |-> y]

NEG_ONE == ivec2(-1, -1)

None == <<>>

Some(s) == <<s>>

----------------------------------------------------------------------------
(* f32 arithmetic of get_dest_pos.  An f32 is kept as an integer number of *)
(* TrigUnit-ths; the values are those of ((direction*90) as f32)           *)
(* .to_radians().sin() / .cos() in IEEE single precision.                  *)

TrigUnit == 1000000000

\* ((deg) as f32).to_radians().sin()
sin_f32(deg) ==
    CASE deg = 0   -> 0
      [] deg = 90  -> TrigUnit
      [] deg = 180 -> -87
      [] deg = 270 -> -TrigUnit

\* ((deg) as f32).to_radians().cos()
cos_f32(deg) ==
    CASE deg = 0   -> TrigUnit
      [] deg = 90  -> -44
      [] deg = 180 -> -TrigUnit
      [] deg = 270 -> 12

\* a conversion to i32 that rounds toward negative infinity
as_i32_floor(f) == f \div TrigUnit

\* `f as i32`: the fractional part is dropped (rounding toward zero)
as_i32(f) == IF f >= 0 THEN f \div TrigUnit ELSE -((-f) \div TrigUnit)

----------------------------------------------------------------------------
(* Player *)

\* the projector with the arms of directions 1 and 3 exchanged
get_direction_vector_offsets_mirrored(p, x, z) ==
    CASE p.direction = 0 -> ivec2(p.x + x, p.y + z)
      [] p.direction = 1 -> ivec2(p.x + z, p.y - x)
      [] p.direction = 2 -> ivec2(p.x - x, p.y - z)
      [] p.direction = 3 -> ivec2(p.x - z, p.y + x)
      [] OTHER -> NEG_ONE

\* a projector that drops the lateral offset of a player facing north
get_direction_vector_offsets_flat(p, x, z) ==
    CASE p.direction = 0 -> ivec2(p.x, p.y + z)
      [] p.direction = 1 -> ivec2(p.x - z, p.y + x)
      [] p.direction = 2 -> ivec2(p.x - x, p.y - z)
      [] p.direction = 3 -> ivec2(p.x + z, p.y - x)
      [] OTHER -> NEG_ONE

\* the projector without the arm of direction 3
get_direction_vector_offsets_no3(p, x, z) ==
    CASE p.direction = 0 -> ivec2(p.x + x, p.y + z)
      [] p.direction = 1 -> ivec2(p.x - z, p.y + x)
      [] p.direction = 2 -> ivec2(p.x - x, p.y - z)
      [] OTHER -> NEG_ONE

get_direction_vector_offsets(p, x, z) ==
    CASE p.direction = 0 -> ivec2(p.x + x, p.y + z)
      [] p.direction = 1 -> ivec2(p.x - z, p.y + x)
      [] p.direction = 2 -> ivec2(p.x - x, p.y - z)
      [] p.direction = 3 -> ivec2(p.x + z, p.y - x)
      [] OTHER -> NEG_ONE

\* a legality predicate for which a cell that holds an object is blocked
can_move_no_object(m, pos) ==
    /\ (pos.x >= 0 /\ pos.y >= 0 /\ pos.x < m.width /\ pos.y < m.height)
    /\ m.wall[pos.y][pos.x] = 0
    /\ m.object[pos.y][pos.x] = 0

\* a legality predicate whose tests of the high edges are off by one
can_move_short(m, pos) ==
    /\ (pos.x >= 0 /\ pos.y >= 0
        /\ pos.x < m.width - 1 /\ pos.y < m.height - 1)
    /\ m.wall[pos.y][pos.x] = 0

\* a legality predicate that checks the edges of the map only
can_move_bounds_only(m, pos) ==
    pos.x >= 0 /\ pos.y >= 0 /\ pos.x < m.width /\ pos.y < m.height

\* a legality predicate that checks the low edges and the wall layer only
can_move_low_edges(m, pos) ==
    /\ pos.x >= 0 /\ pos.y >= 0
    /\ (pos.x < m.width /\ pos.y < m.height) => m.wall[pos.y][pos.x] = 0

can_move(m, pos) ==
    /\ (pos.x >= 0 /\ pos.y >= 0 /\ pos.x < m.width /\ pos.y < m.height)
    /\ m.wall[pos.y][pos.x] = 0

invert_direction_quarter(p) == (p.direction + 1) % 4

invert_direction(p) == (p.direction + 2) % 4

\* a get_dest_pos without the negation of the cosine
get_dest_pos_unnegated(p, direction) ==
    LET dest_vec == ivec2(as_i32(sin_f32(direction * 90)),
                          as_i32(cos_f32(direction * 90)))
    IN  ivec2(dest_vec.x + p.x, dest_vec.y + p.y)

get_dest_pos(p, direction) ==
    LET dest_vec == ivec2(as_i32(sin_f32(direction * 90)),
                          -as_i32(cos_f32(direction * 90)))
    IN  ivec2(dest_vec.x + p.x, dest_vec.y + p.y)

\* the shared tail of the four movement operations
commit_move(p, m, dest_pos) ==
    IF can_move(m, dest_pos)
    THEN [p EXCEPT !.x = dest_pos.x, !.y = dest_pos.y]
    ELSE p

\* a move_forward that commits without asking can_move
move_forward_unchecked(p, m) ==
    LET dest_pos == get_dest_pos(p, p.direction)
    IN  [p EXCEPT !.x = dest_pos.x, !.y = dest_pos.y]

move_forward(p, m) == commit_move(p, m, get_dest_pos(p, p.direction))

\* a move_backward that steps along the facing instead of against it
move_backward_along(p, m) == commit_move(p, m, get_dest_pos(p, p.direction))

move_backward(p, m) == commit_move(p, m, get_dest_pos(p, invert_direction(p)))

strafe_left(p, m) ==
    LET d0 == p.direction - 1
        direction == IF d0 < 0 THEN 3 ELSE d0
    IN  commit_move(p, m, get_dest_pos(p, direction))

strafe_right(p, m) ==
    LET direction == (p.direction + 1) % 4
    IN  commit_move(p, m, get_dest_pos(p, direction))

\* a turn_left that turns the other way
turn_left_clockwise(p) ==
    LET d0 == p.direction + 1
    IN  [p EXCEPT !.direction = IF d0 > 3 THEN 0 ELSE d0]

\* a turn_left without the wrap from 0 to 3
turn_left_no_wrap(p) == [p EXCEPT !.direction = p.direction - 1]

turn_left(p) ==
    LET d0 == p.direction - 1
    IN  [p EXCEPT !.direction = IF d0 < 0 THEN 3 ELSE d0]

\* a turn_right whose wrap test is off by one
turn_right_wrap_at_3(p) ==
    LET d0 == p.direction + 1
    IN  [p EXCEPT !.direction = IF d0 >= 3 THEN 0 ELSE d0]

turn_right(p) ==
    LET d0 == p.direction + 1
    IN  [p EXCEPT !.direction = IF d0 > 3 THEN 0 ELSE d0]

----------------------------------------------------------------------------
(* AtlasCollection *)

Coords(h, w, x, y) == [h |-> h, w |-> w, x |-> x, y |-> y]

\* a scan that takes a tile only when its orientation equals the query's
RECURSIVE scan_tiles_exact(_, _, _, _, _)
scan_tiles_exact(tiles, i, x, z, orientation) ==
    IF i > Len(tiles) THEN None
    ELSE LET tile == tiles[i]
         IN  IF tile.x = x /\ tile.z = z /\ tile.orientation = orientation
             THEN Some(tile)
             ELSE scan_tiles_exact(tiles, i + 1, x, z, orientation)

\* the loop of get_tile over layer.tiles, from index i on
RECURSIVE scan_tiles(_, _, _, _, _)
scan_tiles(tiles, i, x, z, orientation) ==
    IF i > Len(tiles) THEN None
    ELSE LET tile == tiles[i]
         IN  IF /\ tile.x = x /\ tile.z = z
                /\ (tile.orientation = None \/ tile.orientation = orientation)
             THEN Some(tile)
             ELSE scan_tiles(tiles, i + 1, x, z, orientation)

\* a get_tile that scans the tiles of the layer from the last one back
get_tile_last_match(col, atlas_id, layer_id, x, z, orientation) ==
    IF atlas_id \notin DOMAIN col THEN None
    ELSE LET layers == col[atlas_id].atlas_info.layers
         IN  IF layer_id \notin DOMAIN layers THEN None
             ELSE LET tiles == layers[layer_id].tiles
                      rev == [i \in 1 .. Len(tiles) |-> tiles[Len(tiles) + 1 - i]]
                  IN  scan_tiles(rev, 1, x, z, orientation)

\* a get_tile that falls back to some layer of the atlas when the named
\* layer is missing
get_tile_default_layer(col, atlas_id, layer_id, x, z, orientation) ==
    IF atlas_id \notin DOMAIN col THEN None
    ELSE LET layers == col[atlas_id].atlas_info.layers
             found == IF layer_id \in DOMAIN layers THEN layer_id
                      ELSE CHOOSE l \in DOMAIN layers : TRUE
         IN  scan_tiles(layers[found].tiles, 1, x, z, orientation)

get_tile(col, atlas_id, layer_id, x, z, orientation) ==
    IF atlas_id \notin DOMAIN col THEN None
    ELSE LET layers == col[atlas_id].atlas_info.layers
         IN  IF layer_id \notin DOMAIN layers THEN None
             ELSE scan_tiles(layers[layer_id].tiles, 1, x, z, orientation)

\* a lookup that moves the tile it returns out of the layer's list
after_get_tile_taken(col, atlas_id, layer_id, x, z, orientation) ==
    IF get_tile(col, atlas_id, layer_id, x, z, orientation) = None THEN col
    ELSE LET tiles == col[atlas_id].atlas_info.layers[layer_id].tiles
             hit(i) == /\ tiles[i].x = x /\ tiles[i].z = z
                       /\ (tiles[i].orientation = None
                           \/ tiles[i].orientation = orientation)
             k == CHOOSE i \in DOMAIN tiles :
                    hit(i) /\ \A j \in 1 .. i - 1 : ~hit(j)
             rest == [i \in 1 .. Len(tiles) - 1 |->
                        IF i < k THEN tiles[i] ELSE tiles[i + 1]]
         IN  [col EXCEPT
                ![atlas_id].atlas_info.layers[layer_id].tiles = rest]

\* the store after get_tile: the receiver is &self and the tile returned
\* is a clone, so the store is as it was
after_get_tile(col, atlas_id, layer_id, x, z, orientation) == col

----------------------------------------------------------------------------
(* AtlasWorld.  An operation's output is the record of what it handed to   *)
(* draw_map_square (visited), asked of get_tile (calls) and drew (draws).  *)

NoOut == [visited |-> <<>>, calls |-> <<>>, draws |-> <<>>]

\* a concatenation that drops what follows a lookup that found no tile
Cat_stop(a, b) ==
    IF Len(a.calls) > Len(a.draws) THEN a
    ELSE [visited |-> a.visited \o b.visited,
          calls |-> a.calls \o b.calls,
          draws |-> a.draws \o b.draws]

Cat(a, b) == [visited |-> a.visited \o b.visited,
              calls |-> a.calls \o b.calls,
              draws |-> a.draws \o b.draws]

\* a layer name without the dash
format_layer_no_dash(base, map_value) == base \o ToString(map_value)

\* format!("{base}-{map_value}")
format_layer(base, map_value) == base \o "-" \o ToString(map_value)

in_map(m, p) == p.x >= 0 /\ p.y >= 0 /\ p.x < m.width /\ p.y < m.height

draw_tile(self, atlas_id, layer_id, x, z, orientation) ==
    LET tile == get_tile(self.collection, atlas_id, layer_id, x, z, orientation)
        call == [atlas_id |-> atlas_id, layer_id |-> layer_id,
                 x |-> x, z |-> z, orientation |-> orientation]
    IN  [visited |-> <<>>,
         calls |-> <<call>>,
         draws |-> IF atlas_id \notin DOMAIN self.collection THEN <<>>
                   ELSE IF tile # None
                        THEN << [texture |-> self.collection[atlas_id].texture,
                                 dest |-> tile[1].screen_coords,
                                 source |-> tile[1].atlas_coords] >>
                        ELSE <<>>]

draw_side_walls(self, x, z) ==
    LET p == get_direction_vector_offsets(self.player, x, z)
    IN  IF in_map(self.map, p) /\ self.map.wall[p.y][p.x] # 0
        THEN LET layer_id == format_layer("wall", self.map.wall[p.y][p.x])
             IN  Cat(draw_tile(self, "dungeon", layer_id, x, z, Some("left")),
                     draw_tile(self, "dungeon", layer_id, x, z, Some("right")))
        ELSE NoOut

draw_front_walls(self, x, z) ==
    LET p == get_direction_vector_offsets(self.player, x, z)
    IN  IF in_map(self.map, p) /\ self.map.wall[p.y][p.x] # 0
        THEN draw_tile(self, "dungeon",
                       format_layer("wall", self.map.wall[p.y][p.x]),
                       x, z, Some("front"))
        ELSE NoOut

\* the orientation table of draw_objects with "left" and "right" exchanged
object_orientation_mirrored(direction) ==
    CASE direction = 0 -> "front"
      [] direction = 1 -> "left"
      [] direction = 2 -> "back"
      [] direction = 3 -> "right"

\* the match on self.player.direction in draw_objects; no arm for other
\* values (unreachable!())
object_orientation(direction) ==
    CASE direction = 0 -> "front"
      [] direction = 1 -> "right"
      [] direction = 2 -> "back"
      [] direction = 3 -> "left"

draw_objects(self, x, z) ==
    LET p == get_direction_vector_offsets(self.player, x, z)
    IN  IF in_map(self.map, p) /\ self.map.object[p.y][p.x] # 0
        THEN draw_tile(self, "common_objects",
                       format_layer("object", self.map.object[p.y][p.x]),
                       x, z, Some(object_orientation(self.player.direction)))
        ELSE NoOut

\* the wall branch of draw_map_square with the front wall drawn first
draw_walls_front_first(self, x, z) ==
    Cat(draw_front_walls(self, x, z), draw_side_walls(self, x, z))

\* the wall branch of draw_map_square
draw_walls(self, x, z) ==
    Cat(draw_side_walls(self, x, z), draw_front_walls(self, x, z))

\* a draw_map_square that moves a cell off the map to the nearest cell of
\* the map instead of skipping it
draw_map_square_clamped(self, x, z) ==
    LET p == get_direction_vector_offsets(self.player, x, z)
        m == self.map
        clamp(v, hi) == IF v < 0 THEN 0 ELSE IF v > hi THEN hi ELSE v
        c == ivec2(clamp(p.x, m.width - 1), clamp(p.y, m.height - 1))
        seen == [visited |-> << [x |-> x, z |-> z, p |-> p] >>,
                 calls |-> <<>>, draws |-> <<>>]
    IN  Cat(seen,
        Cat(IF m.floor[c.y][c.x] # 0
            THEN draw_tile(self, "dungeon",
                           format_layer("floor", m.floor[c.y][c.x]),
                           x, z, None)
            ELSE NoOut,
        Cat(IF m.ceiling[c.y][c.x] # 0
            THEN draw_tile(self, "dungeon",
                           format_layer("ceiling", m.ceiling[c.y][c.x]),
                           x, z, None)
            ELSE NoOut,
        Cat(IF m.wall[c.y][c.x] # 0 THEN draw_walls(self, x, z) ELSE NoOut,
            IF m.object[c.y][c.x] # 0 THEN draw_objects(self, x, z)
            ELSE NoOut))))

draw_map_square(self, x, z) ==
    LET p == get_direction_vector_offsets(self.player, x, z)
        m == self.map
        seen == [visited |-> << [x |-> x, z |-> z, p |-> p] >>,
                 calls |-> <<>>, draws |-> <<>>]
    IN  IF in_map(m, p)
        THEN Cat(seen,
             Cat(IF m.floor[p.y][p.x] # 0
                 THEN draw_tile(self, "dungeon",
                                format_layer("floor", m.floor[p.y][p.x]),
                                x, z, None)
                 ELSE NoOut,
             Cat(IF m.ceiling[p.y][p.x] # 0
                 THEN draw_tile(self, "dungeon",
                                format_layer("ceiling", m.ceiling[p.y][p.x]),
                                x, z, None)
                 ELSE NoOut,
             Cat(IF m.wall[p.y][p.x] # 0 THEN draw_walls(self, x, z) ELSE NoOut,
                 IF m.object[p.y][p.x] # 0 THEN draw_objects(self, x, z)
                 ELSE NoOut))))
        ELSE seen

\* Rust's a..b and (a..=b).rev() as the sequences of values they yield
range(a, b) == IF b > a THEN [i \in 1 .. (b - a) |-> a + i - 1] ELSE <<>>

range_inclusive_rev(a, b) ==
    IF b >= a THEN [i \in 1 .. (b - a + 1) |-> b - i + 1] ELSE <<>>

\* a / b on integers rounding toward negative infinity
div_floor(a, b) == a \div b

\* i32 division: the quotient is rounded toward zero (b > 0)
div_i32(a, b) == IF a >= 0 THEN a \div b ELSE -((-a) \div b)

RECURSIVE draw_row(_, _, _, _)
draw_row(self, xs, i, z) ==
    IF i > Len(xs) THEN NoOut
    ELSE Cat(draw_map_square(self, xs[i], z), draw_row(self, xs, i + 1, z))

\* the body of the loop over z in render
render_row(self, z) ==
    Cat(draw_row(self, range(div_i32(-self.render_width, 2), 0), 1, z),
        draw_row(self, range_inclusive_rev(0, div_i32(self.render_width, 2)),
                 1, z))

RECURSIVE render_rows(_, _, _)
render_rows(self, zs, i) ==
    IF i > Len(zs) THEN NoOut
    ELSE Cat(render_row(self, zs[i]), render_rows(self, zs, i + 1))

render(self) == render_rows(self, range(-self.render_depth, 1), 1)

----------------------------------------------------------------------------
(* Maps *)

Layer(w, h, f) == [y \in 0 .. h - 1 |-> [x \in 0 .. w - 1 |-> f[<<x, y>>]]]

Cells(w, h) == (0 .. w - 1) \X (0 .. h - 1)

ZeroLayer(w, h) == Layer(w, h, [c \in Cells(w, h) |-> 0])

\* the wall layers with at most MaxWalls wall cells, all of one variant
WallLayers(w, h) ==
    { Layer(w, h, [c \in Cells(w, h) |-> IF c \in S THEN v ELSE 0]) :
        S \in { T \in SUBSET Cells(w, h) : Cardinality(T) <= MaxWalls },
        v \in WallValues }

MoveMaps ==
    UNION { { [width |-> w, height |-> h, wall |-> wl,
               floor |-> ZeroLayer(w, h), ceiling |-> ZeroLayer(w, h),
               object |-> ZeroLayer(w, h)] : wl \in WallLayers(w, h) } :
            w \in 1 .. MaxMapWidth, h \in 1 .. MaxMapHeight }

Players(m) ==
    [x : 0 .. m.width - 1, y : 0 .. m.height - 1, direction : 0 .. 3]

EmptyCollection == [a \in {} |-> 0]

\* one cell of the four layers
Cell(wall, floor, ceiling, object) ==
    [wall |-> wall, floor |-> floor, ceiling |-> ceiling, object |-> object]

\* every cell but one holds a floor of variant 1
Background == Cell(0, 1, 0, 0)

\* what the one other cell holds: nothing; all four layers; a floor and an
\* object of other variants
Populated == { Cell(0, 0, 0, 0), Cell(1, 1, 2, 3), Cell(0, 2, 0, 1) }

\* the map of size w x h that holds `kind` at cell `at` and `bg` elsewhere
MapOf(w, h, bg, at, kind) ==
    LET at_cell(c) == IF c = at THEN kind ELSE bg
    IN  [width |-> w, height |-> h,
         wall |-> Layer(w, h, [c \in Cells(w, h) |-> at_cell(c).wall]),
         floor |-> Layer(w, h, [c \in Cells(w, h) |-> at_cell(c).floor]),
         ceiling |-> Layer(w, h, [c \in Cells(w, h) |-> at_cell(c).ceiling]),
         object |-> Layer(w, h, [c \in Cells(w, h) |-> at_cell(c).object])]

\* the maps that hold Background everywhere but in at most one cell
RenderMaps ==
    UNION { { MapOf(w, h, Background, at, kind) :
                at \in Cells(w, h), kind \in Populated }
            \cup { MapOf(w, h, Background, <<-1, -1>>, Background) } :
            w \in 1 .. MaxMapWidth, h \in 1 .. MaxMapHeight }

----------------------------------------------------------------------------
(* Atlas descriptions: the tiles of a layer for the cells next to the      *)
(* viewer, as the deserialized JSON gives them.                            *)

TileOffsets == << <<0, -1>>, <<1, -1>>, <<-1, 0>>, <<0, 0>> >>

TileOf(k, i, orientation) ==
    [atlas_coords |-> Coords(16, 16, 16 * i, 16 * k),
     screen_coords |-> Coords(64, 64, 128 + 64 * TileOffsets[i][1],
                              96 + 32 * TileOffsets[i][2]),
     x |-> TileOffsets[i][1], z |-> TileOffsets[i][2],
     orientation |-> orientation]

TilesOf(name, k, orientation) ==
    [mode |-> 0, name |-> name, type |-> k,
     tiles |-> [i \in 1 .. Len(TileOffsets) |-> TileOf(k, i, orientation)]]

\* a wall layer with "left" and "front" faces and no "right" face
WallTiles(name, k) ==
    [mode |-> 0, name |-> name, type |-> k,
     tiles |-> [i \in 1 .. Len(TileOffsets) |-> TileOf(k, i, Some("left"))]
               \o [i \in 1 .. Len(TileOffsets) |-> TileOf(k + 1, i, Some("front"))]]

DungeonAtlas ==
    [atlas_info |->
        [layers |-> ("floor-1" :> TilesOf("floor-1", 0, None))
                    @@ ("wall-1" :> WallTiles("wall-1", 1))
                    @@ ("ceiling-2" :> TilesOf("ceiling-2", 3, None))],
     texture |-> "mansion.png"]

ObjectsAtlas ==
    [atlas_info |->
        [layers |-> ("object-3" :> TilesOf("object-3", 0, Some("back")))
                    @@ ("object-1" :> TilesOf("object-1", 1, None))],
     texture |-> "common_objects.png"]

Collections ==
    { ("dungeon" :> DungeonAtlas) @@ ("common_objects" :> ObjectsAtlas),
      ("dungeon" :> DungeonAtlas) }

----------------------------------------------------------------------------
(* The movement state machine: the six operations of Player in any order *)

\* the variables of the frame loop of main and of the lookup history
LoopVars == <<auto_map, pc, frames, first>>

\* outside the frame loop: the operations are called directly
NoLoop ==
    /\ auto_map = <<>>
    /\ pc = "call"
    /\ frames = 0
    /\ first = None

Init ==
    /\ map \in MoveMaps
    /\ player \in Players(map)
    /\ collection = EmptyCollection
    /\ render_depth = 9
    /\ render_width = 22
    /\ NoLoop
    /\ last = [op |-> "init", pre |-> player]
    /\ out = NoOut

Moved(op, p) ==
    /\ player' = p
    /\ last' = [op |-> op, pre |-> player]
    /\ out' = NoOut
    /\ UNCHANGED <<map, collection, render_depth, render_width, LoopVars>>

MoveForward == Moved("move_forward", move_forward(player, map))

MoveBackward == Moved("move_backward", move_backward(player, map))

StrafeLeft == Moved("strafe_left", strafe_left(player, map))

StrafeRight == Moved("strafe_right", strafe_right(player, map))

TurnLeft == Moved("turn_left", turn_left(player))

TurnRight == Moved("turn_right", turn_right(player))

Next ==
    \/ MoveForward
    \/ MoveBackward
    \/ StrafeLeft
    \/ StrafeRight
    \/ TurnLeft
    \/ TurnRight

Spec == Init /\ [][Next]_vars

----------------------------------------------------------------------------
(* The movement state machine started on an open cell of a map of the      *)
(* largest size, with walls of one variant                                 *)

ReachMaps ==
    { m \in MoveMaps :
        /\ m.width = MaxMapWidth
        /\ m.height = MaxMapHeight
        /\ \A y \in 0 .. m.height - 1 : \A x \in 0 .. m.width - 1 :
                m.wall[y][x] \in {0, 1} }

InitReach ==
    /\ map \in ReachMaps
    /\ player \in { p \in Players(map) : map.wall[p.y][p.x] = 0 }
    /\ collection = EmptyCollection
    /\ render_depth = 9
    /\ render_width = 22
    /\ NoLoop
    /\ last = [op |-> "init", pre |-> player]
    /\ out = NoOut

SpecReach == InitReach /\ [][Next]_vars

----------------------------------------------------------------------------
(* The renderer: AtlasWorld::render on any world *)

InitRender ==
    /\ map \in RenderMaps
    /\ player \in Players(map)
    /\ collection \in Collections
    /\ render_depth \in 0 .. MaxRenderDepth
    /\ render_width \in 0 .. MaxRenderWidth
    /\ NoLoop
    /\ last = [op |-> "init", pre |-> player]
    /\ out = NoOut

\* the AtlasWorld the operations are called on
World == [player |-> player, map |-> map, collection |-> collection,
          render_depth |-> render_depth, render_width |-> render_width]

Render ==
    /\ last' = [op |-> "render", pre |-> player]
    /\ out' = render(World)
    /\ UNCHANGED <<player, map, collection, render_depth, render_width,
                     LoopVars>>

NextRender == Render

SpecRender == InitRender /\ [][NextRender]_vars

----------------------------------------------------------------------------
(* Tile lookup: get_tile and draw_tile on a store whose one layer holds    *)
(* any list of at most MaxTiles tiles                                      *)

\* the (x, z) and the orientations the stored tiles take
TilePositions == { <<0, -1>>, <<1, 0>> }

TileOrientations == { None, Some("front"), Some("left") }

\* the i-th tile of a layer; its atlas_coords tell it from the others
StoredTile(i, pos, orientation) ==
    [atlas_coords |-> Coords(16, 16, 16 * i, 0),
     screen_coords |-> Coords(64, 64, 128 + 64 * pos[1], 96 + 32 * pos[2]),
     x |-> pos[1], z |-> pos[2], orientation |-> orientation]

TileLists ==
    UNION { { [i \in 1 .. n |-> StoredTile(i, k[i][1], k[i][2])] :
                k \in [1 .. n -> TilePositions \X TileOrientations] } :
            n \in 0 .. MaxTiles }

\* the store that holds the atlas "dungeon" with the one layer "wall-1"
StoreOf(tiles) ==
    "dungeon" :>
        [atlas_info |->
            [layers |-> ("wall-1" :> [mode |-> 0, name |-> "wall-1",
                                      type |-> 1, tiles |-> tiles])],
         texture |-> "mansion.png"]

\* the atlas and layer a lookup names: both held, the layer missing, the
\* atlas missing
QueryLayers == { <<"dungeon", "wall-1">>, <<"dungeon", "wall-2">>,
                 <<"common_objects", "wall-1">> }

\* the (x, z) a lookup asks for: those of the tiles and one more that
\* shares its x with one of them and its z with the other
QueryPositions == TilePositions \cup { <<0, 0>> }

QueryOrientations ==
    { None, Some("front"), Some("left"), Some("right"), Some("back") }

\* the arguments of a lookup
Queries ==
    { [atlas_id |-> l[1], layer_id |-> l[2], x |-> pos[1], z |-> pos[2],
       orientation |-> o] :
        l \in QueryLayers, pos \in QueryPositions, o \in QueryOrientations }

InitResolve ==
    /\ map = MapOf(1, 1, Background, <<-1, -1>>, Background)
    /\ player = [x |-> 0, y |-> 0, direction |-> 0]
    /\ collection \in { StoreOf(tiles) : tiles \in TileLists }
    /\ render_depth = 0
    /\ render_width = 0
    /\ NoLoop
    /\ last = [op |-> "init", pre |-> player]
    /\ out = NoOut

GetTile ==
    \E q \in Queries :
        /\ last' = [op |-> "get_tile", pre |-> player, query |-> q,
                    result |-> get_tile(collection, q.atlas_id, q.layer_id,
                                        q.x, q.z, q.orientation)]
        /\ out' = NoOut
        /\ collection' = after_get_tile(collection, q.atlas_id, q.layer_id,
                                        q.x, q.z, q.orientation)
        /\ UNCHANGED <<player, map, render_depth, render_width, LoopVars>>

DrawTile ==
    \E q \in Queries :
        /\ last' = [op |-> "draw_tile", pre |-> player, query |-> q]
        /\ out' = draw_tile(World, q.atlas_id, q.layer_id, q.x, q.z,
                            q.orientation)
        /\ UNCHANGED <<player, map, collection, render_depth, render_width,
                     LoopVars>>

NextResolve ==
    \/ GetTile
    \/ DrawTile

SpecResolve == InitResolve /\ [][NextResolve]_vars

----------------------------------------------------------------------------
(* Repeated lookups: get_tile called again and again on one store, with    *)
(* renders and player operations between the calls.  `first` keeps the     *)
(* arguments and the result of the first call.                             *)

InitRepeat ==
    /\ map = MapOf(2, 1, Background, <<-1, -1>>, Background)
    /\ player = [x |-> 0, y |-> 0, direction |-> 1]
    /\ collection \in { StoreOf(tiles) : tiles \in TileLists }
    /\ render_depth = 0
    /\ render_width = 0
    /\ auto_map = <<>>
    /\ pc = "call"
    /\ frames = 0
    /\ first = None
    /\ last = [op |-> "init", pre |-> player]
    /\ out = NoOut

\* the lookups that are repeated: those at (0, -1) in the atlas held, for
\* the layer held and for the layer missing, with every orientation
RepeatQueries ==
    { q \in Queries : q.atlas_id = "dungeon" /\ q.x = 0 /\ q.z = -1 }

Lookup ==
    \E q \in RepeatQueries :
        LET result == get_tile(collection, q.atlas_id, q.layer_id,
                               q.x, q.z, q.orientation)
        IN  /\ last' = [op |-> "get_tile", pre |-> player, query |-> q,
                        result |-> result]
            /\ first' = IF first = None
                         THEN Some([query |-> q, result |-> result])
                         ELSE first
            /\ out' = NoOut
            /\ collection' = after_get_tile(collection, q.atlas_id,
                                            q.layer_id, q.x, q.z,
                                            q.orientation)
            /\ UNCHANGED <<player, map, render_depth, render_width,
                           auto_map, pc, frames>>

NextRepeat ==
    \/ Lookup
    \/ Render
    \/ MoveForward

SpecRepeat == InitRepeat /\ [][NextRepeat]_vars

----------------------------------------------------------------------------
(* The frame loop of main.  One pass of the loop marks the player's cell   *)
(* as explored and applies the operations of the keys pressed (input),     *)
(* walks the window and draws (scene), and then builds the control panel,  *)
(* whose buttons apply their operations when clicked (panel).              *)

Keys == {"W", "S", "A", "D", "Q", "E"}

Buttons == {"forward", "turn_left", "turn_right", "back", "left", "right"}

\* a marking that flips the cell instead of setting it
mark_cell_flip(am, p) == [am EXCEPT ![p.y][p.x] = ~am[p.y][p.x]]

\* if !auto_map[player.y][player.x] { auto_map[player.y][player.x] = true }
mark_cell(am, p) ==
    IF ~am[p.y][p.x] THEN [am EXCEPT ![p.y][p.x] = TRUE] ELSE am

\* the tests of is_key_pressed, in the order of the loop
key_ops(p, m, keys) ==
    LET p1 == IF "W" \in keys THEN move_forward(p, m) ELSE p
        p2 == IF "S" \in keys THEN move_backward(p1, m) ELSE p1
        p3 == IF "A" \in keys THEN strafe_left(p2, m) ELSE p2
        p4 == IF "D" \in keys THEN strafe_right(p3, m) ELSE p3
        p5 == IF "Q" \in keys THEN turn_left(p4) ELSE p4
    IN  IF "E" \in keys THEN turn_right(p5) ELSE p5

\* the buttons of the control panel, in the order the window builds them
panel_ops(p, m, clicked) ==
    LET p1 == IF "forward" \in clicked THEN move_forward(p, m) ELSE p
        p2 == IF "turn_left" \in clicked THEN turn_left(p1) ELSE p1
        p3 == IF "turn_right" \in clicked THEN turn_right(p2) ELSE p2
        p4 == IF "back" \in clicked THEN move_backward(p3, m) ELSE p3
        p5 == IF "left" \in clicked THEN strafe_left(p4, m) ELSE p4
    IN  IF "right" \in clicked THEN strafe_right(p5, m) ELSE p5

\* the sets of buttons one frame can report as clicked: the pointer is
\* released over at most one of them
Clicks == { {} } \cup { {b} : b \in Buttons }

\* the maps of main: at least 2 x 2, the player's first cell (1, 1) open,
\* a floor everywhere and at most one cell that holds all four layers, west
\* or north of the first cell
FrameMaps ==
    UNION { { MapOf(w, h, Background, at, Cell(1, 1, 2, 3)) :
                at \in { <<0, 1>>, <<1, 0>> } }
            \cup { MapOf(w, h, Background, <<-1, -1>>, Background) } :
            w \in 2 .. MaxMapWidth, h \in 2 .. MaxMapHeight }

\* the window of main (render_depth 9, render_width 22) is cut to the
\* bounds of the model
InitFrame ==
    /\ map \in FrameMaps
    /\ player = [x |-> 1, y |-> 1, direction |-> 2]
    /\ collection = ("dungeon" :> DungeonAtlas)
                        @@ ("common_objects" :> ObjectsAtlas)
    /\ render_depth = MaxRenderDepth
    /\ render_width = MaxRenderWidth
    /\ auto_map = [y \in 0 .. map.height - 1 |->
                        [x \in 0 .. map.width - 1 |-> FALSE]]
    /\ pc = "input"
    /\ frames = 0
    /\ first = None
    /\ last = [op |-> "init", pre |-> player, explored |-> auto_map]
    /\ out = NoOut

FrameInput ==
    /\ pc = "input"
    /\ frames < MaxFrames
    /\ \E keys \in SUBSET Keys :
            player' = key_ops(player, map, keys)
    /\ auto_map' = mark_cell(auto_map, player)
    /\ pc' = "scene"
    /\ last' = [op |-> "input", pre |-> player, explored |-> auto_map]
    /\ out' = NoOut
    /\ UNCHANGED <<map, collection, render_depth, render_width, frames, first>>

\* a scene traversal that marks the player's cell in the explored-cells map
FrameScene_marking ==
    /\ pc = "scene"
    /\ out' = render(World)
    /\ pc' = "panel"
    /\ auto_map' = mark_cell(auto_map, player)
    /\ last' = [op |-> "scene", pre |-> player, explored |-> auto_map]
    /\ UNCHANGED <<player, map, collection, render_depth, render_width,
                   frames, first>>

FrameScene ==
    /\ pc = "scene"
    /\ out' = render(World)
    /\ pc' = "panel"
    /\ last' = [op |-> "scene", pre |-> player, explored |-> auto_map]
    /\ UNCHANGED <<player, map, collection, render_depth, render_width,
                   auto_map, frames, first>>

FramePanel ==
    /\ pc = "panel"
    /\ \E clicked \in Clicks :
            player' = panel_ops(player, map, clicked)
    /\ pc' = "input"
    /\ frames' = frames + 1
    /\ last' = [op |-> "panel", pre |-> player, explored |-> auto_map]
    /\ UNCHANGED <<map, collection, render_depth, render_width, auto_map,
                   first, out>>

NextFrame ==
    \/ FrameInput
    \/ FrameScene
    \/ FramePanel

SpecFrame == InitFrame /\ [][NextFrame]_vars

----------------------------------------------------------------------------
(* Vocabulary of the properties: the specification's own tables, written   *)
(* without reference to the operators above.                               *)

MoveOps == {"move_forward", "move_backward", "strafe_left", "strafe_right"}

\* the unit step of direction d: north, east, south, west
StepOf(d) ==
    CASE d = 0 -> ivec2(0, -1)
      [] d = 1 -> ivec2(1, 0)
      [] d = 2 -> ivec2(0, 1)
      [] d = 3 -> ivec2(-1, 0)

\* quarter turns clockwise from the facing, per movement operation
QuartersOf(op) ==
    CASE op = "move_forward" -> 0
      [] op = "strafe_right" -> 1
      [] op = "move_backward" -> 2
      [] op = "strafe_left" -> 3

\* the candidate destination of movement operation op for player p
DestOf(p, op) ==
    LET s == StepOf((p.direction + QuartersOf(op)) % 4)
    IN  ivec2(p.x + s.x, p.y + s.y)

InBounds(m, c) == 0 <= c.x /\ c.x < m.width /\ 0 <= c.y /\ c.y < m.height

IsWall(m, c) == InBounds(m, c) /\ m.wall[c.y][c.x] # 0

Legal(m, c) == InBounds(m, c) /\ m.wall[c.y][c.x] = 0

Abs(n) == IF n < 0 THEN -n ELSE n

\* the candidate destination of the movement operation performed last
LastDest == DestOf(last.pre, last.op)

----------------------------------------------------------------------------
(* Movement *)

\* C1: the player is on a cell of the map in every reachable state, and a
\* movement operation whose destination lies off the map leaves the player
\* where it was, whatever the wall layer holds.
C1_BoundsInvariant ==
    /\ InBounds(map, player)
    /\ (last.op \in MoveOps /\ ~InBounds(map, LastDest)) => player = last.pre

\* C1 witness: a step off the edge of a map without any wall was attempted
\* and rejected.
C1_Witness ==
    /\ last.op \in MoveOps
    /\ ~InBounds(map, LastDest)
    /\ \A c \in Cells(map.width, map.height) : map.wall[c[2]][c[1]] = 0
    /\ player = last.pre

\* C2: a movement operation whose destination is off the map or a wall cell
\* changes none of x, y and direction.
C2_RejectedMoveIsNoOp ==
    (last.op \in MoveOps /\ ~Legal(map, LastDest)) => player = last.pre

\* C2 witness: move_forward towards a wall cell has been performed.
C2_Witness ==
    /\ last.op = "move_forward"
    /\ IsWall(map, LastDest)
    /\ player = last.pre

\* C3: a movement operation whose destination is on the map and no wall
\* puts the player exactly on position + step((d+k) mod 4), k = 0, 2, 3, 1
\* for forward, backward, strafe left, strafe right: one cell along one
\* axis, the direction unchanged.
C3_SuccessfulMove ==
    (last.op \in MoveOps /\ Legal(map, LastDest)) =>
        /\ player = [x |-> LastDest.x, y |-> LastDest.y,
                     direction |-> last.pre.direction]
        /\ Abs(player.x - last.pre.x) + Abs(player.y - last.pre.y) = 1

\* C3 witness: a strafe_left of a player facing north has moved it one cell
\* to the west.
C3_Witness ==
    /\ last.op = "strafe_left"
    /\ last.pre.direction = 0
    /\ Legal(map, LastDest)
    /\ player.x = last.pre.x - 1
    /\ player.y = last.pre.y

\* C4: turn_left sets direction to (direction+3) mod 4 and turn_right to
\* (direction+1) mod 4, on every map, and both leave x and y unchanged.
C4_TurnOperations ==
    /\ last.op = "turn_left" =>
         player = [last.pre EXCEPT !.direction = (last.pre.direction + 3) % 4]
    /\ last.op = "turn_right" =>
         player = [last.pre EXCEPT !.direction = (last.pre.direction + 1) % 4]

\* C4 witness: turn_left has turned a player all of whose neighbouring
\* cells (at least two) are walls.
C4_Witness ==
    /\ last.op = "turn_left"
    /\ player.direction = 3
    /\ last.pre.direction = 0
    /\ \A d \in 0 .. 3 :
         LET n == ivec2(player.x + StepOf(d).x, player.y + StepOf(d).y)
         IN  InBounds(map, n) => IsWall(map, n)
    /\ Cardinality({ d \in 0 .. 3 :
         IsWall(map, ivec2(player.x + StepOf(d).x, player.y + StepOf(d).y)) })
         >= 2

\* C5: from every reachable player state, turn_left then turn_right, and
\* turn_right then turn_left, give the state back, and so do four
\* turn_right and four turn_left.
C5_TurnClosure ==
    /\ turn_right(turn_left(player)) = player
    /\ turn_left(turn_right(player)) = player
    /\ turn_right(turn_right(turn_right(turn_right(player)))) = player
    /\ turn_left(turn_left(turn_left(turn_left(player)))) = player

\* C5 witness: a turn_right has just undone a turn_left across the wrap
\* from direction 3 to direction 0.
C5_Witness ==
    /\ last.op = "turn_right"
    /\ last.pre = turn_left(player)
    /\ last.pre.direction = 3
    /\ player.direction = 0

----------------------------------------------------------------------------
(* Projector *)

\* local_to_world(forward, lateral) of the specification for player p
local_to_world(p, forward, lateral) ==
    get_direction_vector_offsets(p, lateral, forward)

\* the projector table of the specification
ProjectorTable(p, forward, lateral) ==
    CASE p.direction = 0 -> ivec2(p.x + lateral, p.y + forward)
      [] p.direction = 1 -> ivec2(p.x - forward, p.y + lateral)
      [] p.direction = 2 -> ivec2(p.x - lateral, p.y - forward)
      [] p.direction = 3 -> ivec2(p.x + forward, p.y - lateral)

\* floor(render_width / 2), the half width of the visibility window
HalfWidth == render_width \div 2

WindowForward == (-render_depth) .. 0

WindowLateral == (-HalfWidth) .. HalfWidth

\* C6: for every forward and lateral of the visibility window the projector
\* gives the table's cell, the cells a render hands to draw_map_square are
\* the table's cells, and the projector of the player turned right by one
\* step at (f, l) is the projector of the player at (l, -f).
C6_ProjectorTable ==
    /\ \A f \in WindowForward, l \in WindowLateral :
         /\ local_to_world(player, f, l) = ProjectorTable(player, f, l)
         /\ local_to_world([player EXCEPT !.direction = (player.direction + 1) % 4],
                           f, l)
              = local_to_world(player, l, -f)
    /\ \A i \in 1 .. Len(out.visited) :
         out.visited[i].p
           = ProjectorTable(player, out.visited[i].z, out.visited[i].x)

\* C6 witness: a render by a player facing west has projected the window
\* cell one ahead and one to the right onto (x - 1, y - 1).
C6_Witness ==
    /\ last.op = "render"
    /\ player.direction = 3
    /\ \E i \in 1 .. Len(out.visited) :
         /\ out.visited[i].z = -1
         /\ out.visited[i].x = 1
         /\ out.visited[i].p = ivec2(player.x - 1, player.y - 1)

\* C7: in every reachable player state, and for each of the four
\* directions, local_to_world(0, 0) is the player's own cell.
C7_RotationConsistency ==
    \A d \in 0 .. 3 :
        local_to_world([player EXCEPT !.direction = d], 0, 0)
          = ivec2(player.x, player.y)

\* C7 witness: the player has moved while facing west.
C7_Witness ==
    /\ last.op \in MoveOps
    /\ player # last.pre
    /\ player.direction = 3
    /\ local_to_world(player, 0, 0) = ivec2(player.x, player.y)

----------------------------------------------------------------------------
(* Scene traversal *)

\* cells per row of the visibility window
RowLength == 2 * HalfWidth + 1

\* the k-th cell (k from 0) of the traversal order of the specification:
\* rows from -depth to 0, in a row the left columns in increasing order and
\* then the right columns down to the centre
OrderZ(k) == -render_depth + (k \div RowLength)

OrderX(k) ==
    LET j == k % RowLength
    IN  IF j < HalfWidth THEN -HalfWidth + j ELSE 2 * HalfWidth - j

\* C8: a render visits the cells in the traversal order of the
\* specification: every cell of the window exactly once, a farther row
\* wholly before a nearer one, the centre column last in its row.
C8_TraversalOrder ==
    last.op = "render" =>
        LET v == out.visited
        IN  /\ Len(v) = (render_depth + 1) * RowLength
            /\ \A k \in 1 .. Len(v) :
                 v[k].z = OrderZ(k - 1) /\ v[k].x = OrderX(k - 1)
            /\ \A f \in WindowForward, l \in WindowLateral :
                 Cardinality({ k \in 1 .. Len(v) : v[k].z = f /\ v[k].x = l }) = 1
            /\ \A i, j \in 1 .. Len(v) : v[i].z < v[j].z => i < j
            /\ \A i, j \in 1 .. Len(v) :
                 (v[i].z = v[j].z /\ v[j].x = 0) => i <= j

\* C8 witness: a render with depth 1 and width 2 has visited the six cells
\* of its window, the far row first and the centre column last in each row.
C8_Witness ==
    /\ last.op = "render"
    /\ render_depth = 1
    /\ render_width = 2
    /\ [k \in 1 .. Len(out.visited) |->
            <<out.visited[k].x, out.visited[k].z>>]
         = << <<-1, -1>>, <<1, -1>>, <<0, -1>>, <<-1, 0>>, <<1, 0>>, <<0, 0>> >>

\* the lookups a render issued for the window cell (x, z)
CallsAt(x, z) ==
    LET at(c) == c.x = x /\ c.z = z
    IN  SelectSeq(out.calls, at)

\* "{base}-{v}" of the specification
LayerName(base, v) == base \o "-" \o ToString(v)

\* the place of lookup c in the emission order of a cell at world cell p:
\* 1 floor, 2 ceiling, 3 left wall, 4 right wall, 5 front wall, 6 object,
\* 0 for a lookup that is none of these
SlotOf(c, p) ==
    CASE c.atlas_id = "dungeon" /\ c.orientation = None
           /\ c.layer_id = LayerName("floor", map.floor[p.y][p.x]) -> 1
      [] c.atlas_id = "dungeon" /\ c.orientation = None
           /\ c.layer_id = LayerName("ceiling", map.ceiling[p.y][p.x]) -> 2
      [] c.atlas_id = "dungeon" /\ c.orientation = Some("left")
           /\ c.layer_id = LayerName("wall", map.wall[p.y][p.x]) -> 3
      [] c.atlas_id = "dungeon" /\ c.orientation = Some("right")
           /\ c.layer_id = LayerName("wall", map.wall[p.y][p.x]) -> 4
      [] c.atlas_id = "dungeon" /\ c.orientation = Some("front")
           /\ c.layer_id = LayerName("wall", map.wall[p.y][p.x]) -> 5
      [] c.atlas_id = "common_objects" -> 6
      [] OTHER -> 0

\* C9: for a visited cell of the map whose wall value v is nonzero the
\* lookups of layer "wall-v" are issued as "left", "right", "front", and
\* over the cell the lookups come in the order floor, ceiling, side walls,
\* front wall, object.
C9_EmissionOrder ==
    last.op = "render" =>
        \A i \in 1 .. Len(out.visited) :
            LET v == out.visited[i]
                cs == CallsAt(v.x, v.z)
                walls == { k \in 1 .. Len(cs) :
                             cs[k].layer_id = LayerName("wall", map.wall[v.p.y][v.p.x]) }
            IN  InBounds(map, v.p) =>
                  /\ \A k \in 1 .. Len(cs) : SlotOf(cs[k], v.p) > 0
                  /\ \A j, k \in 1 .. Len(cs) :
                       j < k => SlotOf(cs[j], v.p) < SlotOf(cs[k], v.p)
                  /\ map.wall[v.p.y][v.p.x] # 0 =>
                       \E k \in 1 .. Len(cs) - 2 :
                         /\ walls = {k, k + 1, k + 2}
                         /\ cs[k].orientation = Some("left")
                         /\ cs[k + 1].orientation = Some("right")
                         /\ cs[k + 2].orientation = Some("front")

\* C9 witness: a render has visited a cell holding floor, ceiling, wall and
\* object and issued its six lookups.
C9_Witness ==
    /\ last.op = "render"
    /\ \E i \in 1 .. Len(out.visited) :
         LET v == out.visited[i]
         IN  /\ InBounds(map, v.p)
             /\ map.wall[v.p.y][v.p.x] # 0
             /\ map.floor[v.p.y][v.p.x] # 0
             /\ map.ceiling[v.p.y][v.p.x] # 0
             /\ map.object[v.p.y][v.p.x] # 0
             /\ Len(CallsAt(v.x, v.z)) = 6
             /\ CallsAt(v.x, v.z)[3].orientation = Some("left")
             /\ CallsAt(v.x, v.z)[5].orientation = Some("front")

\* the orientation of objects per facing of the player
FacingName(d) == <<"front", "right", "back", "left">>[d + 1]

\* C10: for a visited cell of the map whose object value v is nonzero the
\* render issues exactly one lookup in atlas "common_objects", for layer
\* "object-v" at the cell's local offset, with the orientation of the
\* player's facing; no other cell gets such a lookup.
C10_ObjectOrientation ==
    last.op = "render" =>
        \A i \in 1 .. Len(out.visited) :
            LET v == out.visited[i]
                cs == CallsAt(v.x, v.z)
                objs == { k \in 1 .. Len(cs) : cs[k].atlas_id = "common_objects" }
            IN  IF InBounds(map, v.p) /\ map.object[v.p.y][v.p.x] # 0
                THEN \E k \in 1 .. Len(cs) :
                       /\ objs = {k}
                       /\ cs[k] = [atlas_id |-> "common_objects",
                                   layer_id |-> LayerName("object", map.object[v.p.y][v.p.x]),
                                   x |-> v.x, z |-> v.z,
                                   orientation |-> Some(FacingName(player.direction))]
                ELSE objs = {}

\* C10 witness: a player facing south has rendered a cell with object
\* value 3 that is not its own cell, and asked for "object-3", "back".
C10_Witness ==
    /\ last.op = "render"
    /\ player.direction = 2
    /\ \E k \in 1 .. Len(out.calls) :
         /\ out.calls[k].atlas_id = "common_objects"
         /\ out.calls[k].layer_id = "object-3"
         /\ out.calls[k].orientation = <<"back">>
         /\ out.calls[k].z = -1
         /\ out.calls[k].x = 1

----------------------------------------------------------------------------
(* Lookup vocabulary: the query of the last lookup and the list it names *)

LayerFound(q) ==
    /\ q.atlas_id \in DOMAIN collection
    /\ q.layer_id \in DOMAIN collection[q.atlas_id].atlas_info.layers

TilesNamed(q) == collection[q.atlas_id].atlas_info.layers[q.layer_id].tiles

\* the match rule of the specification for one stored tile
Matches(t, q) ==
    /\ t.x = q.x
    /\ t.z = q.z
    /\ (t.orientation = None \/ t.orientation = q.orientation)

MatchingIndexes(q) ==
    { i \in DOMAIN TilesNamed(q) : Matches(TilesNamed(q)[i], q) }

Least(S) == CHOOSE i \in S : \A j \in S : i <= j

\* the indexes of the stored tiles at the (x, z) of the query
IndexesAt(q) ==
    { i \in DOMAIN TilesNamed(q) :
        TilesNamed(q)[i].x = q.x /\ TilesNamed(q)[i].z = q.z }

\* C11: a lookup in a layer of the store returns the earliest tile of the
\* layer's list that matches the query, the first stored of several, and
\* none when no tile of the list matches.
C11_FirstMatch ==
    (last.op = "get_tile" /\ LayerFound(last.query)) =>
        IF MatchingIndexes(last.query) = {}
        THEN last.result = None
        ELSE last.result =
                Some(TilesNamed(last.query)[Least(MatchingIndexes(last.query))])

\* a lookup that two stored tiles match has returned the first of the two
C11_Witness ==
    /\ last.op = "get_tile"
    /\ LayerFound(last.query)
    /\ Cardinality(MatchingIndexes(last.query)) >= 2
    /\ last.result = Some(TilesNamed(last.query)[1])
    /\ TilesNamed(last.query)[2] # TilesNamed(last.query)[1]

\* C12: a stored tile without orientation answers a query at its (x, z)
\* whatever orientation the query carries; a tile with an orientation is
\* returned only to a query that carries that same orientation, and so
\* never to a query without orientation.
C12_OrientationFallback ==
    (last.op = "get_tile" /\ LayerFound(last.query)) =>
        LET q == last.query
            T == TilesNamed(q)
        IN  /\ (\E i \in IndexesAt(q) : T[i].orientation = None)
                    => last.result # None
            /\ (last.result # None /\ last.result[1].orientation # None)
                    => /\ q.orientation # None
                       /\ q.orientation = last.result[1].orientation
            /\ (\A i \in IndexesAt(q) :
                    T[i].orientation # None
                    /\ T[i].orientation # q.orientation)
                    => last.result = None

\* a query for "back" has passed over a "front" tile at its (x, z) and
\* has been answered by the tile without orientation stored after it
C12_Witness ==
    /\ last.op = "get_tile"
    /\ LayerFound(last.query)
    /\ last.query.orientation = Some("back")
    /\ IndexesAt(last.query) = {1, 2}
    /\ TilesNamed(last.query)[1].orientation = Some("front")
    /\ TilesNamed(last.query)[2].orientation = None
    /\ last.result = Some(TilesNamed(last.query)[2])

\* C13: a lookup that names an atlas the store does not hold, or a layer
\* the atlas does not hold, returns none, and draw_tile then emits no draw
\* operation for that request.
C13_MissingIsNone ==
    /\ (last.op = "get_tile" /\ ~LayerFound(last.query))
            => last.result = None
    /\ (last.op = "draw_tile" /\ ~LayerFound(last.query))
            => /\ out.draws = <<>>
               /\ out.calls = << last.query >>

\* draw_tile has been asked for a layer its atlas does not hold, at an
\* (x, z) and orientation that a tile of the atlas's other layer matches
C13_Witness ==
    /\ last.op = "draw_tile"
    /\ last.query.atlas_id \in DOMAIN collection
    /\ ~LayerFound(last.query)
    /\ \E t \in { TilesNamed([last.query EXCEPT !.layer_id = "wall-1"])[i] :
                    i \in DOMAIN TilesNamed([last.query EXCEPT
                                                !.layer_id = "wall-1"]) } :
            Matches(t, last.query)
    /\ out.draws = <<>>

----------------------------------------------------------------------------
(* Cells off the map *)

\* where the tiles of the atlas descriptions above put local offset (x, z)
\* on the screen
ScreenOf(x, z) == Coords(64, 64, 128 + 64 * x, 96 + 32 * z)

\* C14: a render issues no lookup and emits no draw operation for a visited
\* cell whose world cell lies off the map, wherever the player stands and
\* whichever way the player faces; what it draws belongs to visited cells of
\* the map.
C14_OffMapDrawsNothing ==
    last.op = "render" =>
        /\ \A k \in DOMAIN out.visited :
                LET v == out.visited[k]
                IN  ~InBounds(map, ProjectorTable(last.pre, v.z, v.x))
                        => CallsAt(v.x, v.z) = <<>>
        /\ \A d \in DOMAIN out.draws :
                \E k \in DOMAIN out.visited :
                    LET v == out.visited[k]
                    IN  /\ InBounds(map, ProjectorTable(last.pre, v.z, v.x))
                        /\ out.draws[d].dest = ScreenOf(v.x, v.z)

\* a render by a player on the west edge has visited a cell off the map
\* and has drawn for a cell of the map
C14_Witness ==
    /\ last.op = "render"
    /\ last.pre.x = 0
    /\ \E k \in DOMAIN out.visited :
            ~InBounds(map, ProjectorTable(last.pre, out.visited[k].z,
                                          out.visited[k].x))
    /\ out.draws # <<>>

----------------------------------------------------------------------------
(* Steps *)

\* the nearest integer of an f32 kept in TrigUnit-ths, halves away from zero
Round(f) ==
    LET a == Abs(f)
        q == a \div TrigUnit
        r == a % TrigUnit
        n == IF r >= TrigUnit - r THEN q + 1 ELSE q
    IN  IF f >= 0 THEN n ELSE -n

\* the step of the specification: (round(sin), -round(cos)) of d * 90 degrees
RoundedStep(d) ==
    ivec2(Round(sin_f32(d * 90)), -Round(cos_f32(d * 90)))

\* C15: for each direction 0..3 the destination is the position plus the
\* unit step (0,-1), (1,0), (0,1), (-1,0), which is (round(sin), -round(cos))
\* of direction * 90 degrees; the step is never (0,0) and never diagonal,
\* and a movement that moved the player moved it by that step.
C15_UnitSteps ==
    /\ \A d \in 0 .. 3 :
            LET dest == get_dest_pos(player, d)
                step == ivec2(dest.x - player.x, dest.y - player.y)
            IN  /\ step = StepOf(d)
                /\ step = RoundedStep(d)
                /\ step # ivec2(0, 0)
                /\ Abs(step.x) + Abs(step.y) = 1
    /\ (last.op \in MoveOps /\ player # last.pre) =>
            ivec2(player.x - last.pre.x, player.y - last.pre.y)
                = RoundedStep((last.pre.direction + QuartersOf(last.op)) % 4)

\* a player facing north has stepped backward to the south: the step of
\* direction 2, whose sine in f32 is a little below zero
C15_Witness ==
    /\ last.op = "move_backward"
    /\ last.pre.direction = 0
    /\ player.x = last.pre.x
    /\ player.y = last.pre.y + 1
    /\ sin_f32(180) < 0

----------------------------------------------------------------------------
(* Direction *)

\* C16: the direction is one of 0, 1, 2, 3 before and after every movement
\* and turn operation, so the projector never takes its fallback arm (that
\* would put the player's own cell at (-1, -1)) and the match of
\* draw_objects on the direction always finds an arm.
C16_DirectionRange ==
    /\ player.direction \in 0 .. 3
    /\ last.pre.direction \in 0 .. 3
    /\ get_direction_vector_offsets(player, 0, 0) = ivec2(player.x, player.y)
    /\ get_direction_vector_offsets(player, 0, 0) # NEG_ONE
    /\ object_orientation(player.direction)
            \in {"front", "right", "back", "left"}

\* both wraps: a turn_left has taken the direction from 0 to 3 and a
\* turn_right would take it back from 3 to 0
C16_Witness ==
    /\ last.op = "turn_left"
    /\ last.pre.direction = 0
    /\ player.direction = 3
    /\ turn_right(player).direction = 0
    /\ object_orientation(player.direction) = "left"

----------------------------------------------------------------------------
(* Movement and projector *)

\* the local offset (forward, lateral) of the cell a movement operation
\* steps to
ForwardOf(op) ==
    CASE op = "move_forward" -> -1
      [] op = "move_backward" -> 1
      [] op = "strafe_left" -> 0
      [] op = "strafe_right" -> 0

LateralOf(op) ==
    CASE op = "move_forward" -> 0
      [] op = "move_backward" -> 0
      [] op = "strafe_left" -> -1
      [] op = "strafe_right" -> 1

\* movement operation op applied to player p on map m
Apply(op, p, m) ==
    CASE op = "move_forward" -> move_forward(p, m)
      [] op = "move_backward" -> move_backward(p, m)
      [] op = "strafe_left" -> strafe_left(p, m)
      [] op = "strafe_right" -> strafe_right(p, m)

\* C20: in every player state each movement operation steps to the cell the
\* projector gives for its local offset: forward (-1, 0), backward (+1, 0),
\* left (0, -1), right (0, +1).  The operation moves the player there when
\* that cell is on the map and no wall, and not at all otherwise; the
\* operation performed last did so.
C20_MovementMatchesProjector ==
    /\ get_dest_pos(player, player.direction) = local_to_world(player, -1, 0)
    /\ get_dest_pos(player, invert_direction(player))
            = local_to_world(player, 1, 0)
    /\ \A op \in MoveOps :
            LET c == local_to_world(player, ForwardOf(op), LateralOf(op))
                q == Apply(op, player, map)
            IN  IF Legal(map, c) THEN ivec2(q.x, q.y) = c ELSE q = player
    /\ last.op \in MoveOps =>
            LET c == local_to_world(last.pre, ForwardOf(last.op),
                                    LateralOf(last.op))
            IN  IF Legal(map, c) THEN ivec2(player.x, player.y) = c
                ELSE player = last.pre

\* a player facing east has strafed left, to the cell north of it that the
\* projector gives for lateral -1
C20_Witness ==
    /\ last.op = "strafe_left"
    /\ last.pre.direction = 1
    /\ player # last.pre
    /\ ivec2(player.x, player.y) = local_to_world(last.pre, 0, -1)
    /\ player.y = last.pre.y - 1

----------------------------------------------------------------------------
(* Frames *)

\* C17: at the end of every frame the draw sequence the frame emitted is the
\* one computed from the player state that holds at the end of the frame:
\* every operation of the frame, from a key or from a button of the control
\* panel, has been applied before the scene was walked.
C17_SceneAfterOperations ==
    last.op = "panel" =>
        /\ player = last.pre
        /\ out = render(World)

\* the cells of the map, as (x, y)
MapCells == (0 .. map.width - 1) \X (0 .. map.height - 1)

\* C18: the explored-cells map has map.height rows of map.width cells, all
\* false before the first frame; the input part of every frame sets the cell
\* the player occupies; no step turns a true cell false; and a cell turns
\* true only in the input part of a frame, and only the cell the player
\* occupies then.
C18_ExploredCells ==
    /\ DOMAIN auto_map = 0 .. map.height - 1
    /\ \A y \in DOMAIN auto_map : DOMAIN auto_map[y] = 0 .. map.width - 1
    /\ last.op = "init" => \A c \in MapCells : ~auto_map[c[2]][c[1]]
    /\ last.op = "input" => auto_map[last.pre.y][last.pre.x]
    /\ \A c \in MapCells : last.explored[c[2]][c[1]] => auto_map[c[2]][c[1]]
    /\ \A c \in MapCells :
            (auto_map[c[2]][c[1]] /\ ~last.explored[c[2]][c[1]])
                => /\ last.op = "input"
                   /\ c = <<last.pre.x, last.pre.y>>

\* the second frame, on a map wider than high, has marked the cell the
\* player moved to in the first frame; the cell marked first is still true
C18_Witness ==
    /\ last.op = "input"
    /\ frames = 1
    /\ map.width > map.height
    /\ ~last.explored[last.pre.y][last.pre.x]
    /\ auto_map[last.pre.y][last.pre.x]
    /\ <<last.pre.x, last.pre.y>> # <<1, 1>>
    /\ auto_map[1][1]

----------------------------------------------------------------------------
(* Determinism of the lookup *)

----------------------------------------------------------------------------
(* Walls *)

\* the cells the explored-cells map marks, as (x, y)
Marked == { c \in MapCells : auto_map[c[2]][c[1]] }

\* C21: a player that starts on a cell of the map without wall stands on
\* such a cell after every operation of every frame, an operation applied
\* to a player on such a cell leaves it on one, and every cell the
\* explored-cells map marks is a cell of the map without wall.
C21_NeverInWall ==
    /\ Legal(map, ivec2(player.x, player.y))
    /\ Legal(map, ivec2(last.pre.x, last.pre.y))
    /\ \A c \in Marked : Legal(map, ivec2(c[1], c[2]))

\* in a later frame the player stands next to a wall cell and faces it,
\* and the explored-cells map marks two cells
C21_Witness ==
    /\ frames >= 1
    /\ IsWall(map, get_dest_pos(player, player.direction))
    /\ Cardinality(Marked) >= 2
    /\ move_forward(player, map) = player

----------------------------------------------------------------------------
(* Requests per layer *)

\* the nonzero values the layers of the maps above hold
LayerValues == 1 .. 3

\* the layer names "{base}-{v}" of a base layer
NamesOf(base) == { LayerName(base, n) : n \in LayerValues }

FloorNames == NamesOf("floor")

CeilingNames == NamesOf("ceiling")

WallNames == NamesOf("wall")

\* the lookups among cs whose layer is one of names
Among(cs, names) == { k \in 1 .. Len(cs) : cs[k].layer_id \in names }

\* the one lookup of a floor or ceiling of value n at local offset (x, z)
PlainRequest(base, n, x, z) ==
    [atlas_id |-> "dungeon", layer_id |-> LayerName(base, n),
     x |-> x, z |-> z, orientation |-> None]

\* C22: for a visited cell of the map at local offset (forward, lateral)
\* the render asks for a floor tile iff the floor value v is nonzero, once,
\* in atlas "dungeon", layer "floor-v", with x the lateral and z the forward
\* offset and no orientation; for a ceiling tile likewise with layer
\* "ceiling-v"; for wall tiles iff the wall value v is nonzero, in atlas
\* "dungeon", layer "wall-v"; a layer of value 0 gets no lookup.
C22_LayerRequests ==
    last.op = "render" =>
        \A i \in 1 .. Len(out.visited) :
            LET v == out.visited[i]
                cs == CallsAt(v.x, v.z)
                fl == Among(cs, FloorNames)
                ce == Among(cs, CeilingNames)
                wa == Among(cs, WallNames)
            IN  InBounds(map, v.p) =>
                  /\ v.p = ProjectorTable(last.pre, v.z, v.x)
                  /\ IF map.floor[v.p.y][v.p.x] = 0 THEN fl = {}
                     ELSE /\ Cardinality(fl) = 1
                          /\ \A k \in fl :
                                cs[k] = PlainRequest("floor",
                                            map.floor[v.p.y][v.p.x], v.x, v.z)
                  /\ IF map.ceiling[v.p.y][v.p.x] = 0 THEN ce = {}
                     ELSE /\ Cardinality(ce) = 1
                          /\ \A k \in ce :
                                cs[k] = PlainRequest("ceiling",
                                            map.ceiling[v.p.y][v.p.x], v.x, v.z)
                  /\ IF map.wall[v.p.y][v.p.x] = 0 THEN wa = {}
                     ELSE /\ wa # {}
                          /\ \A k \in wa :
                                /\ cs[k].atlas_id = "dungeon"
                                /\ cs[k].layer_id =
                                     LayerName("wall", map.wall[v.p.y][v.p.x])
                                /\ cs[k].orientation # None

\* a render has visited, left or right of the centre column, a cell with
\* floor value 2 and neither ceiling nor wall, and has asked for "floor-2"
\* there and for nothing else of atlas "dungeon"
C22_Witness ==
    /\ last.op = "render"
    /\ \E i \in 1 .. Len(out.visited) :
         LET v == out.visited[i]
             cs == CallsAt(v.x, v.z)
         IN  /\ InBounds(map, v.p)
             /\ v.x # 0
             /\ v.z = -1
             /\ map.floor[v.p.y][v.p.x] = 2
             /\ map.ceiling[v.p.y][v.p.x] = 0
             /\ map.wall[v.p.y][v.p.x] = 0
             /\ cs[1] = PlainRequest("floor", 2, v.x, v.z)
             /\ \A k \in 2 .. Len(cs) : cs[k].atlas_id # "dungeon"

----------------------------------------------------------------------------
(* Independence of the layers *)

\* whether the store holds a tile for lookup q, and the draw operation the
\* specification emits for it
Resolves(q) == LayerFound(q) /\ MatchingIndexes(q) # {}

DrawOf(q) ==
    LET tile == TilesNamed(q)[Least(MatchingIndexes(q))]
    IN  [texture |-> collection[q.atlas_id].texture,
         dest |-> tile.screen_coords, source |-> tile.atlas_coords]

\* the draw operations of the lookups cs from the i-th on, in their order
RECURSIVE DrawsOf(_, _)
DrawsOf(cs, i) ==
    IF i > Len(cs) THEN <<>>
    ELSE (IF Resolves(cs[i]) THEN << DrawOf(cs[i]) >> ELSE <<>>)
         \o DrawsOf(cs, i + 1)

\* 1 for a nonzero layer value, 0 for zero
Present(v) == IF v # 0 THEN 1 ELSE 0

\* C23: every cell of the window is processed, every layer of a visited
\* cell of the map gets its lookups by its own map value alone (one for
\* floor, ceiling and object, three for the wall), and the draw operations
\* of the render are those of the lookups that resolve a tile, in the order
\* of the lookups: a lookup that resolves none draws nothing and stops
\* neither the other layers of its cell nor the cells after it.
C23_LayersIndependent ==
    last.op = "render" =>
        /\ Len(out.visited) = RowLength * (render_depth + 1)
        /\ \A i \in 1 .. Len(out.visited) :
                LET v == out.visited[i]
                IN  InBounds(map, v.p) =>
                        Len(CallsAt(v.x, v.z))
                            = Present(map.floor[v.p.y][v.p.x])
                              + Present(map.ceiling[v.p.y][v.p.x])
                              + 3 * Present(map.wall[v.p.y][v.p.x])
                              + Present(map.object[v.p.y][v.p.x])
        /\ out.draws = DrawsOf(out.calls, 1)

\* the lookups at local offset (x, z) that resolve a tile
DrawnAt(x, z) ==
    LET hit(c) == c.x = x /\ c.z = z /\ Resolves(c)
    IN  SelectSeq(out.calls, hit)

\* a render has drawn floor, ceiling, left wall, front wall and object for
\* one cell, whose right wall resolved no tile, and a floor for a cell
\* visited after it
C23_Witness ==
    /\ last.op = "render"
    /\ \E i \in 1 .. Len(out.visited) - 1 :
         LET v == out.visited[i]
             w == out.visited[i + 1]
             cs == CallsAt(v.x, v.z)
         IN  /\ InBounds(map, v.p)
             /\ Len(cs) = 6
             /\ Len(DrawnAt(v.x, v.z)) = 5
             /\ ~Resolves(cs[4])
             /\ DrawnAt(v.x, v.z)[2].layer_id = "ceiling-2"
             /\ DrawnAt(v.x, v.z)[5].atlas_id = "common_objects"
             /\ Len(DrawnAt(w.x, w.z)) = 1
    /\ Len(out.draws) >= 6

----------------------------------------------------------------------------
(* Reversal *)

\* the movement operation that undoes a movement operation
ReverseOf(op) ==
    CASE op = "move_forward" -> "move_backward"
      [] op = "move_backward" -> "move_forward"
      [] op = "strafe_left" -> "strafe_right"
      [] op = "strafe_right" -> "strafe_left"

\* C24: for a player on a cell of the map without wall, a movement that
\* changes the position followed by its reverse (forward/backward,
\* backward/forward, left/right, right/left) gives back the original x, y
\* and direction; so it is for the movement performed last.
C24_MovesReversible ==
    /\ Legal(map, ivec2(player.x, player.y)) =>
            \A op \in MoveOps :
                LET q == Apply(op, player, map)
                IN  q # player => Apply(ReverseOf(op), q, map) = player
    /\ (last.op \in MoveOps /\ player # last.pre
            /\ Legal(map, ivec2(last.pre.x, last.pre.y)))
            => Apply(ReverseOf(last.op), player, map) = last.pre

\* a player has strafed left from an open cell, stands next to a wall
\* cell, and a strafe right would take it back
C24_Witness ==
    /\ last.op = "strafe_left"
    /\ player # last.pre
    /\ Legal(map, ivec2(last.pre.x, last.pre.y))
    /\ strafe_right(player, map) = last.pre
    /\ \E d \in 0 .. 3 : IsWall(map, get_dest_pos(player, d))

----------------------------------------------------------------------------
(* Reachability *)

\* the cells next to cell c = (x, y) in the four directions
Neighbours(c) ==
    { <<c[1], c[2] - 1>>, <<c[1] + 1, c[2]>>,
      <<c[1], c[2] + 1>>, <<c[1] - 1, c[2]>> }

OpenCell(m, c) == Legal(m, ivec2(c[1], c[2]))

\* the open cells joined to the cells of S by paths of open cells
RECURSIVE Flood(_, _)
Flood(m, S) ==
    LET more == { c \in UNION { Neighbours(s) : s \in S } :
                    OpenCell(m, c) } \ S
    IN  IF more = {} THEN S ELSE Flood(m, S \cup more)

\* the open connected component of the open cell c
Component(m, c) == Flood(m, {c})

\* the results of the six operations on the players of S
Successors(m, S) ==
    UNION { { move_forward(p, m), move_backward(p, m), strafe_left(p, m),
              strafe_right(p, m), turn_left(p), turn_right(p) } : p \in S }

\* the player states some sequence of operations reaches from those of R;
\* F holds the states found last
RECURSIVE Reach(_, _, _)
Reach(m, R, F) ==
    LET new == Successors(m, F) \ R
    IN  IF new = {} THEN R ELSE Reach(m, R \cup new, new)

\* C25: from a player on an open cell the sequences of operations reach
\* exactly the cells of the open connected component of that cell, each
\* with each of the four directions; an operation never leaves the
\* component of the cell it started on.
C25_ReachableIsComponent ==
    /\ <<player.x, player.y>>
            \in Component(map, <<last.pre.x, last.pre.y>>)
    /\ last.op = "init" =>
            Reach(map, {player}, {player})
                = { [x |-> c[1], y |-> c[2], direction |-> d] :
                        c \in Component(map, <<player.x, player.y>>),
                        d \in 0 .. 3 }

\* on a map whose walls part the open cells a movement has taken the
\* player to another cell of its component, and some open cell is reached
\* by no sequence of operations
C25_Witness ==
    /\ last.op \in MoveOps
    /\ player # last.pre
    /\ <<player.x, player.y>> \in Component(map, <<last.pre.x, last.pre.y>>)
    /\ \E c \in MapCells :
            /\ OpenCell(map, c)
            /\ \A p \in Reach(map, {last.pre}, {last.pre}) :
                    <<p.x, p.y>> # c

----------------------------------------------------------------------------
(* Movement and the other layers *)

\* maps with the width, height and wall layer of m and other floor, ceiling
\* and object layers: every cell filled; objects on the open cells only
Twins(m) ==
    { [m EXCEPT
        !.floor = [y \in 0 .. m.height - 1 |->
                     [x \in 0 .. m.width - 1 |-> 1]],
        !.ceiling = [y \in 0 .. m.height - 1 |->
                       [x \in 0 .. m.width - 1 |-> 2]],
        !.object = [y \in 0 .. m.height - 1 |->
                      [x \in 0 .. m.width - 1 |-> 3]]],
      [m EXCEPT
        !.floor = m.wall,
        !.object = [y \in 0 .. m.height - 1 |->
                      [x \in 0 .. m.width - 1 |->
                         IF m.wall[y][x] = 0 THEN 1 ELSE 0]]] }

\* C26: on a map with the same width, height and wall layer and other
\* floor, ceiling and object layers every movement gives the same player
\* state, and gave the same for the operation performed last, so equal
\* sequences of operations give equal sequences of player states; a cell
\* that holds an object does not block a movement.
C26_WallLayerOnly ==
    \A twin \in Twins(map) :
        /\ twin # map
        /\ \A op \in MoveOps :
                Apply(op, player, twin) = Apply(op, player, map)
        /\ last.op \in MoveOps => player = Apply(last.op, last.pre, twin)
        /\ (last.op \in MoveOps /\ Legal(map, LastDest)) =>
                /\ twin.object[LastDest.y][LastDest.x] # 0
                /\ ivec2(player.x, player.y) = LastDest

\* a movement has taken the player to a cell that holds an object in the
\* other maps
C26_Witness ==
    /\ last.op \in MoveOps
    /\ player # last.pre
    /\ \A twin \in Twins(map) :
            /\ twin.object[player.y][player.x] # 0
            /\ Apply(last.op, last.pre, twin) = player

----------------------------------------------------------------------------
(* One window cell per world cell *)

\* the window cells a render projected onto the world cell c
CellsOnto(c) == { i \in 1 .. Len(out.visited) : out.visited[i].p = c }

\* the lookups a render issued for the world cell c
CallsOnto(c) ==
    LET onto(q) == \E i \in CellsOnto(c) :
                      out.visited[i].x = q.x /\ out.visited[i].z = q.z
    IN  SelectSeq(out.calls, onto)

ObjectNames == NamesOf("object")

\* C27: the player's direction is one of the four, and for the player
\* distinct cells of the visibility window project to distinct world cells
\* (the window has as many projections as it has cells);
\* a render processes each world cell for at most one window cell and asks
\* at most once for its floor, its ceiling and its object and at most three
\* times for its wall, once for each of left, right and front.
C27_ProjectionInjective ==
    /\ player.direction \in 0 .. 3
    /\ Cardinality({ local_to_world(player, f, l) :
                        f \in WindowForward, l \in WindowLateral })
         = Cardinality(WindowForward \X WindowLateral)
    /\ last.op = "render" =>
         /\ \A i, j \in 1 .. Len(out.visited) :
                out.visited[i].p = out.visited[j].p => i = j
         /\ \A c \in MapCells :
                LET at == ivec2(c[1], c[2])
                    cs == CallsOnto(at)
                    wa == Among(cs, WallNames)
                IN  /\ Cardinality(CellsOnto(at)) <= 1
                    /\ Cardinality(Among(cs, FloorNames)) <= 1
                    /\ Cardinality(Among(cs, CeilingNames)) <= 1
                    /\ Cardinality(Among(cs, ObjectNames)) <= 1
                    /\ Cardinality(wa) <= 3
                    /\ \A k1, k2 \in wa :
                          cs[k1].orientation = cs[k2].orientation => k1 = k2
                    /\ \A k \in wa :
                          cs[k].orientation
                            \in { <<"left">>, <<"right">>, <<"front">> }

\* a render of a window of six cells has projected them onto the six cells
\* of the map, a player facing north, and has asked three times for the wall
\* of one of them and once for its floor, its ceiling and its object
C27_Witness ==
    /\ last.op = "render"
    /\ player.direction = 0
    /\ Len(out.visited) = 6
    /\ { out.visited[i].p : i \in 1 .. 6 }
         = { ivec2(c[1], c[2]) : c \in MapCells }
    /\ \E c \in MapCells :
         LET cs == CallsOnto(ivec2(c[1], c[2]))
         IN  /\ Cardinality(Among(cs, WallNames)) = 3
             /\ Cardinality(Among(cs, FloorNames)) = 1
             /\ Cardinality(Among(cs, CeilingNames)) = 1
             /\ Cardinality(Among(cs, ObjectNames)) = 1
             /\ Len(cs) = 6

----------------------------------------------------------------------------
(* What a frame changes *)

\* C28: no step of a frame (the movements and turns of the keys and of the
\* buttons, the scene traversal and its lookups) changes the map, the store
\* of atlases or the size of the window; the scene traversal changes
\* neither the player nor the explored-cells map.
C28_ReadOnly ==
    [][/\ map' = map
       /\ collection' = collection
       /\ render_depth' = render_depth
       /\ render_width' = render_width
       /\ pc = "scene" => (player' = player /\ auto_map' = auto_map)]_vars

\* after a frame that moved the player, the scene traversal of the next
\* frame has drawn tiles of both atlases and has left the player and the
\* explored-cells map, which marks two cells, as they were
C28_Witness ==
    /\ frames >= 1
    /\ last.op = "scene"
    /\ player = last.pre
    /\ auto_map = last.explored
    /\ player # [x |-> 1, y |-> 1, direction |-> 2]
    /\ Cardinality(Marked) >= 2
    /\ \E i, j \in 1 .. Len(out.calls) :
         /\ out.calls[i].atlas_id = "dungeon"
         /\ out.calls[j].atlas_id = "common_objects"
         /\ Resolves(out.calls[i])
         /\ Resolves(out.calls[j])

====
